---- MODULE Spec2Model ----
(***************************************************************************)
(* A model of backend/server.py: the HTTP handlers of the Tekisho chat     *)
(* API.  The sequential handlers (save_chat, get_chats,                    *)
(* extract_client_info, save_conversation) are served one request at a     *)
(* time under Spec; the get_token handler, which suspends at the registry  *)
(* lookup, is served by concurrent requests under SpecToken.               *)
(***************************************************************************)
EXTENDS Integers, Sequences, FiniteSets, TLC

\* ------------------------------------------------------------------ bounds
MaxLen == 2            \* longest chat_history of a request
MaxRequests == 2       \* requests served in one behaviour

\* ------------------------------------------------------------ input values
NoVal == "<none>"      \* Python None / a key that is absent
Msgs == {"hi", "bye"}

RECURSIVE SeqsUpTo(_, _)
SeqsUpTo(S, n) ==
  IF n = 0 THEN {<< >>}
  ELSE LET shorter == SeqsUpTo(S, n - 1)
       IN  shorter \cup {Append(s, x) : s \in {t \in shorter : Len(t) = n - 1}, x \in S}

\* The value under the key chat_history of a JSON body: absent, null or a list.
ChatHistoryValues ==
  {[tag |-> "missing", items |-> << >>], [tag |-> "null", items |-> << >>]}
    \cup {[tag |-> "list", items |-> s] : s \in SeqsUpTo(Msgs, MaxLen)}

\* What request.get_json() yields: it raises, or returns null, {} or an object.
Bodies ==
  {[kind |-> k, name |-> NoVal, company_name |-> NoVal,
    chat_history |-> [tag |-> "missing", items |-> << >>]] : k \in {"raise", "null", "empty"}}
    \cup {[kind |-> "object", name |-> n, company_name |-> c, chat_history |-> h] :
            n \in {NoVal, "Alice"}, c \in {NoVal, "Acme"}, h \in ChatHistoryValues}

\* Python truthiness of the parsed body and of its chat_history.
\* The payload of save-conversation carries chat_history alone.
ConversationBodies == {d \in Bodies : d.name = NoVal /\ d.company_name = NoVal}

NotData(d) == d.kind \in {"null", "empty"}
\* NotChatHistory without the test for an empty list.
NotChatHistory_null_only(h) == h.tag \in {"missing", "null"}
NotChatHistory(h) == h.tag \in {"missing", "null"} \/ h.items = << >>

\* dict.get(key, default)
Get(v, default) == IF v = NoVal THEN default ELSE v

\* Outcomes of one run of supabase_client.save_chat_history: a record with an
\* id, a dict holding "error", or an exception.
StorageErrors == {"E1", "E2"}
WriteOutcomes ==
  {[kind |-> "ok", id |-> "rec-1", error |-> NoVal],
   [kind |-> "errdict", id |-> NoVal, error |-> "insert failed"]}
    \cup {[kind |-> "raise", id |-> NoVal, error |-> e] : e \in StorageErrors}

NoResult == [kind |-> "none", id |-> NoVal, error |-> NoVal]

\* Outcomes of extract_user_info_from_chat: a dict (either key may be absent)
\* or an exception.
ExtractorOutcomes ==
  {[kind |-> "dict", name |-> n, company |-> c] : n \in {NoVal, "Alice"}, c \in {NoVal, "Acme"}}
    \cup {[kind |-> "raise", name |-> NoVal, company |-> NoVal]}

\* The calling thread's event loop when save_conversation is entered.
Contexts == {"none", "idle", "closed", "running"}

LoopRunningError == "Cannot run the event loop while another loop is running"

\* --------------------------------------------------------- get_chats inputs
LimitBound == 2        \* limits from -LimitBound to LimitBound are requested
DefaultLimit == 50

\* The query argument limit: absent, not a number, or an integer.
LimitArgs ==
  {[kind |-> "absent", value |-> 0], [kind |-> "text", value |-> 0]}
    \cup {[kind |-> "int", value |-> n] : n \in (0 - LimitBound)..LimitBound}

\* Outcomes of supabase_client.get_chat_history: n records, or an exception.
QueryOutcomes ==
  {[kind |-> "rows", n |-> n] : n \in 0..MaxLen} \cup {[kind |-> "raise", n |-> 0]}

\* ----------------------------------------------- extract_client_info inputs
\* The completion text is a sequence of tokens: punctuation, JSON string
\* literals, other JSON literals, bare words and blanks.
StringLit ==
  ("\"name\"" :> "name") @@ ("\"company\"" :> "company")
    @@ ("\"Alice\"" :> "Alice") @@ ("\"Acme\"" :> "Acme")
OtherLit == ("null" :> NoVal) @@ ("7" :> "7")
Punctuation == {"{", "}", "[", "]", ":", ","}
BareWords == {"Sure", "name"}
Blank == " "
Tokens == DOMAIN StringLit \cup DOMAIN OtherLit \cup Punctuation \cup BareWords \cup {Blank}

MaxTextLen == 2        \* every text of up to MaxTextLen tokens is tried

LongTexts ==
  { <<"{", "\"name\"", ":", "\"Alice\"", ",", "\"company\"", ":", "\"Acme\"", "}">>,
    <<"{", "\"company\"", ":", "\"Acme\"", ",", "\"name\"", ":", "\"Alice\"", "}">>,
    <<Blank, "{", "\"name\"", ":", "\"Alice\"", ",", "\"company\"", ":", "\"Acme\"", "}", Blank>>,
    <<"{", "\"name\"", ":", "\"Alice\"", "}">>,
    <<"{", "\"company\"", ":", "\"Acme\"", "}">>,
    <<"{", "\"Alice\"", ":", "\"Acme\"", "}">>,
    <<"{", "\"name\"", ":", "null", ",", "\"company\"", ":", "\"Acme\"", "}">>,
    <<"{", "\"name\"", ":", "\"Alice\"", ",", "\"name\"", ":", "\"Acme\"", "}">>,
    <<"{", "\"name\"", ":", "\"Alice\"", ",", "\"company\"", ":", "\"Acme\"">>,
    <<"{", "\"name\"", ":", "\"Alice\"", ",", "}">>,
    <<"{", "name", ":", "\"Alice\"", ",", "\"company\"", ":", "\"Acme\"", "}">>,
    <<"Sure", "{", "\"name\"", ":", "\"Alice\"", ",", "\"company\"", ":", "\"Acme\"", "}">>,
    <<"[", "\"Alice\"", ",", "\"Acme\"", "]">>,
    <<"[", "\"Alice\"", "]">> }

Texts == LongTexts \cup SeqsUpTo(Tokens, MaxTextLen)

\* Outcomes of client.chat.completions.create: the message content (a text
\* or None), or an exception.
CompletionOutcomes ==
  {[kind |-> "text", content |-> t] : t \in Texts}
    \cup {[kind |-> k, content |-> << >>] : k \in {"none", "raise"}}

NoCompletion == [kind |-> "unset", content |-> << >>]

\* str.strip(): leading and trailing blanks are dropped.
RECURSIVE LStrip(_)
LStrip(t) == IF t # << >> /\ Head(t) = Blank THEN LStrip(Tail(t)) ELSE t
RECURSIVE RStrip(_)
RStrip(t) ==
  IF t # << >> /\ t[Len(t)] = Blank THEN RStrip(SubSeq(t, 1, Len(t) - 1)) ELSE t
Strip(t) == RStrip(LStrip(t))

\* json.loads: a JSON value or a decode error.  Values are scalars, arrays of
\* scalars and objects whose members are scalars; a repeated key keeps its
\* last value.
IsScalar(tok) == tok \in DOMAIN StringLit \cup DOMAIN OtherLit
ScalarValue(tok) == IF tok \in DOMAIN StringLit THEN StringLit[tok] ELSE OtherLit[tok]
DecodeError == [ok |-> FALSE, type |-> "error", value |-> NoVal, members |-> << >>]
Decoded(type, value, members) ==
  [ok |-> TRUE, type |-> type, value |-> value, members |-> members]

RECURSIVE ParseMembers(_)
ParseMembers(ts) ==
  IF Len(ts) < 3 \/ ts[1] \notin DOMAIN StringLit \/ ts[2] # ":" \/ ~IsScalar(ts[3])
    THEN DecodeError
  ELSE LET pair == StringLit[ts[1]] :> ScalarValue(ts[3])
       IN  IF Len(ts) = 3 THEN Decoded("object", NoVal, pair)
           ELSE IF ts[4] # "," THEN DecodeError
           ELSE LET more == ParseMembers(SubSeq(ts, 5, Len(ts)))
                IN  IF more.ok THEN Decoded("object", NoVal, more.members @@ pair)
                    ELSE DecodeError

RECURSIVE ParseElements(_)
ParseElements(ts) ==
  IF ts = << >> \/ ~IsScalar(ts[1]) THEN FALSE
  ELSE IF Len(ts) = 1 THEN TRUE
  ELSE ts[2] = "," /\ ParseElements(SubSeq(ts, 3, Len(ts)))

json_loads(text) ==
  LET ts == SelectSeq(text, LAMBDA tok : tok # Blank)
      n == Len(ts)
  IN  IF n = 0 THEN DecodeError
      ELSE IF n = 1 THEN (IF IsScalar(ts[1])
                          THEN Decoded("scalar", ScalarValue(ts[1]), << >>)
                          ELSE DecodeError)
      ELSE IF ts[1] = "{" /\ ts[n] = "}"
        THEN (IF n = 2 THEN Decoded("object", NoVal, << >>)
              ELSE ParseMembers(SubSeq(ts, 2, n - 1)))
      ELSE IF ts[1] = "[" /\ ts[n] = "]"
        THEN (IF n = 2 \/ ParseElements(SubSeq(ts, 2, n - 1))
              THEN Decoded("array", NoVal, << >>)
              ELSE DecodeError)
      ELSE DecodeError

\* dict.get(key, default) on a decoded object.
MemberGet(members, key, default) ==
  IF key \in DOMAIN members THEN members[key] ELSE default

\* --------------------------------------------------------- get_token inputs
NumSuffixes == 2       \* distinct values of str(uuid.uuid4())[:8]
Suffixes == 1..NumSuffixes

\* "room-" + suffix, and a room name a client chose itself.
RoomName(prefix, suffix) == [prefix |-> prefix, suffix |-> suffix]
GeneratedNames == {RoomName("room-", x) : x \in Suffixes}
EmptyName == RoomName("", 0)
RoomNames == GeneratedNames \cup {RoomName("lobby", 0)}

\* request.args.get("room", None): absent, empty or a name.
RoomArgs == {[given |-> FALSE, value |-> EmptyName], [given |-> TRUE, value |-> EmptyName]}
              \cup {[given |-> TRUE, value |-> r] : r \in RoomNames}
NotRoom(a) == ~a.given \/ a.value = EmptyName

TokenRequests == {"r1", "r2"}

\* ---------------------------------------------------------------- responses
NoResponse ==
  [status |-> 0, success |-> FALSE, error |-> NoVal, name |-> NoVal,
   company |-> NoVal, message_count |-> -1, record_id |-> NoVal, count |-> -1]

ErrorResponse(code, msg) == [NoResponse EXCEPT !.status = code, !.error = msg]

\* ------------------------------------------------------------------- state
VARIABLES
  pc,            \* position of the request in flight
  endpoint,      \* the handler serving it
  data,          \* request.get_json()
  ctx,           \* event loop of the calling thread
  chat_history,  \* local chat_history of the handler
  name,          \* local name
  company,       \* local company
  loop,          \* local loop of save_conversation: "unset", "reused", "created"
  resources,     \* loops and pool created by this call: "absent", "open", "closed"
  future,        \* what the worker's future holds: NoResult while pending
  coros,         \* save_chat_history coroutines created by this call
  writes,        \* runs of save_chat_history driven by this call, in order
  extracted,     \* lengths of the chat_history handed to the extractor by this call
  rucOnRunning,  \* run_until_complete was called on the thread while its loop ran
  result,        \* local result
  response,      \* the response returned
  queries,       \* limits handed to get_chat_history by this call
  completion,    \* what client.chat.completions.create did for this call
  openLoops,     \* loops created by requests so far and not closed
  served,        \* requests completed
  registry,      \* names of the rooms the registry lists
  tok            \* the get_token requests, by request id

callVars == <<chat_history, name, company, loop, resources, future, coros, writes,
              extracted, rucOnRunning, result>>
handlerVars == <<pc, endpoint, data, ctx, callVars, response, openLoops, served,
                 queries, completion>>
tokenVars == <<registry, tok>>
otherVars == <<queries, completion, tokenVars>>
vars == <<handlerVars, tokenVars>>

NoResources == [loop |-> "absent", pool |-> "absent", worker_loop |-> "absent",
                new_loop |-> "absent"]

NoData == [kind |-> "null", name |-> NoVal, company_name |-> NoVal,
           chat_history |-> [tag |-> "missing", items |-> << >>]]

\* No request in flight: no handler frame exists.
NoCall ==
  /\ endpoint = NoVal
  /\ data = NoData
  /\ ctx = "none"
  /\ chat_history = << >>
  /\ name = NoVal
  /\ company = NoVal
  /\ loop = "unset"
  /\ resources = NoResources
  /\ future = NoResult
  /\ coros = 0
  /\ writes = << >>
  /\ extracted = << >>
  /\ rucOnRunning = FALSE
  /\ result = NoResult
  /\ response = NoResponse
  /\ queries = << >>
  /\ completion = NoCompletion

\* The handler returns: its frame is dropped.
ClearCall ==
  /\ endpoint' = NoVal
  /\ data' = NoData
  /\ ctx' = "none"
  /\ chat_history' = << >>
  /\ name' = NoVal
  /\ company' = NoVal
  /\ loop' = "unset"
  /\ resources' = NoResources
  /\ future' = NoResult
  /\ coros' = 0
  /\ writes' = << >>
  /\ extracted' = << >>
  /\ rucOnRunning' = FALSE
  /\ result' = NoResult
  /\ response' = NoResponse
  /\ queries' = << >>
  /\ completion' = NoCompletion

InitHandlers ==
  /\ pc = "idle"
  /\ NoCall
  /\ openLoops = 0
  /\ served = 0

\* A fresh call: nothing of the bridge has run yet.
FreshBridge ==
  /\ loop' = "unset"
  /\ resources' = NoResources
  /\ future' = NoResult
  /\ coros' = 0
  /\ rucOnRunning' = FALSE
  /\ result' = NoResult

\* One run of save_chat_history on thread `by` with history h, ending in o.
Write(by, h, o) == [by |-> by, len |-> Len(h), outcome |-> o]

\* ---------------------------------------------------------------- save_chat
\* save_chat_response counting one message too few.
save_chat_response_miscount(d, o) ==
  IF d.kind = "raise" THEN ErrorResponse(500, "bad request")
  ELSE IF NotData(d) THEN ErrorResponse(400, "No JSON data provided")
  ELSE IF NotChatHistory(d.chat_history) THEN ErrorResponse(400, "No chat history provided")
  ELSE IF o.kind = "raise" THEN ErrorResponse(500, o.error)
  ELSE IF o.kind = "errdict" THEN ErrorResponse(500, o.error)
  ELSE [NoResponse EXCEPT !.status = 200, !.success = TRUE,
                          !.record_id = o.id,
                          !.message_count = Len(d.chat_history.items) - 1]

save_chat_response(d, o) ==
  IF d.kind = "raise" THEN ErrorResponse(500, "bad request")
  ELSE IF NotData(d) THEN ErrorResponse(400, "No JSON data provided")
  ELSE IF NotChatHistory(d.chat_history) THEN ErrorResponse(400, "No chat history provided")
  ELSE IF o.kind = "raise" THEN ErrorResponse(500, o.error)
  ELSE IF o.kind = "errdict" THEN ErrorResponse(500, o.error)
  ELSE [NoResponse EXCEPT !.status = 200, !.success = TRUE,
                          !.record_id = o.id,
                          !.message_count = Len(d.chat_history.items)]

\* Whether the handler reaches supabase_client.save_chat_history.
save_chat_writes(d) ==
  d.kind = "object" /\ ~NotChatHistory(d.chat_history)

save_chat ==
  /\ pc = "idle"
  /\ served < MaxRequests
  /\ \E d \in Bodies, o \in WriteOutcomes :
       /\ FreshBridge
       /\ endpoint' = "save_chat"
       /\ data' = d
       /\ name' = IF d.kind = "object" THEN Get(d.name, "Unknown") ELSE NoVal
       /\ company' = IF d.kind = "object" THEN Get(d.company_name, "Unknown Company") ELSE NoVal
       /\ chat_history' = IF d.kind = "object" THEN d.chat_history.items ELSE << >>
       /\ ctx' = "none"
       /\ response' = save_chat_response(d, o)
       /\ writes' = IF save_chat_writes(d)
                    THEN <<Write("caller", d.chat_history.items, o)>>
                    ELSE << >>
       /\ pc' = "done"
  /\ UNCHANGED <<extracted, openLoops, served, otherVars>>

\* ---------------------------------------------------------------- get_chats
\* int(request.args.get("limit", 50)); ValueError when it is not a number.
get_chats_limit(a) == IF a.kind = "absent" THEN DefaultLimit ELSE a.value

\* Whether the handler reaches supabase_client.get_chat_history.
get_chats_queries(a) == a.kind # "text"

get_chats_response(a, q) ==
  IF a.kind = "text" THEN ErrorResponse(500, "invalid literal for int()")
  ELSE IF q.kind = "raise" THEN ErrorResponse(500, "query failed")
  ELSE [NoResponse EXCEPT !.status = 200, !.success = TRUE, !.count = q.n]

get_chats ==
  /\ pc = "idle"
  /\ served < MaxRequests
  /\ \E a \in LimitArgs, q \in QueryOutcomes :
       /\ queries' = IF get_chats_queries(a) THEN <<get_chats_limit(a)>> ELSE << >>
       /\ response' = get_chats_response(a, q)
  /\ endpoint' = "get_chats"
  /\ pc' = "done"
  /\ UNCHANGED <<data, ctx, callVars, openLoops, served, completion, tokenVars>>

\* ------------------------------------------------------ extract_client_info
\* The try/except around json.loads and the two dict.get: a decode error, or
\* a value without .get, falls back to "Unknown" for both.
\* parse_client_info falling back for both fields when either is absent.
parse_client_info_all_or_nothing(text) ==
  LET extracted_info == json_loads(text)
  IN  IF /\ extracted_info.ok
         /\ extracted_info.type = "object"
         /\ {"name", "company"} \subseteq DOMAIN extracted_info.members
        THEN [name |-> extracted_info.members["name"],
              company |-> extracted_info.members["company"]]
        ELSE [name |-> "Unknown", company |-> "Unknown"]

parse_client_info(text) ==
  LET extracted_info == json_loads(text)
  IN  IF extracted_info.ok /\ extracted_info.type = "object"
        THEN [name |-> MemberGet(extracted_info.members, "name", "Unknown"),
              company |-> MemberGet(extracted_info.members, "company", "Unknown")]
        ELSE [name |-> "Unknown", company |-> "Unknown"]

extract_client_info_response(d, c) ==
  IF d.kind = "raise" THEN ErrorResponse(500, "bad request")
  ELSE IF NotData(d) \/ NotChatHistory(d.chat_history)
    THEN ErrorResponse(400, "No chat history provided")
  ELSE IF c.kind = "raise" THEN ErrorResponse(500, "completion failed")
  ELSE IF c.kind = "none" THEN ErrorResponse(500, "NoneType has no strip")
  ELSE LET info == parse_client_info(Strip(c.content))
       IN  [NoResponse EXCEPT !.status = 200, !.success = TRUE,
                               !.name = info.name, !.company = info.company]

\* Whether the handler reaches client.chat.completions.create.
extract_client_info_completes(d) ==
  d.kind = "object" /\ ~NotChatHistory(d.chat_history)

extract_client_info ==
  /\ pc = "idle"
  /\ served < MaxRequests
  /\ \E d \in ConversationBodies, c \in CompletionOutcomes :
       /\ data' = d
       /\ chat_history' = IF d.kind = "object" /\ ~NotChatHistory(d.chat_history)
                          THEN d.chat_history.items ELSE << >>
       /\ completion' = IF extract_client_info_completes(d) THEN c ELSE NoCompletion
       /\ response' = extract_client_info_response(d, c)
  /\ endpoint' = "extract_client_info"
  /\ pc' = "done"
  /\ UNCHANGED <<ctx, name, company, loop, resources, future, coros, writes, extracted,
                 rucOnRunning, result, queries, openLoops, served, tokenVars>>

\* -------------------------------------------------------- save_conversation
\* The request arrives: its body and the state of the calling thread's loop.
save_conversation ==
  /\ pc = "idle"
  /\ served < MaxRequests
  /\ \E d \in ConversationBodies, c \in Contexts :
       /\ data' = d
       /\ ctx' = c
  /\ FreshBridge
  /\ endpoint' = "save_conversation"
  /\ pc' = "validate"
  /\ UNCHANGED <<chat_history, name, company, writes, extracted, response,
                 openLoops, served, otherVars>>

\* request.get_json() and the two checks of chat_history.
sc_validate ==
  /\ pc = "validate"
  /\ IF data.kind = "raise"
       THEN /\ response' = ErrorResponse(500, "bad request")
            /\ pc' = "done"
            /\ UNCHANGED chat_history
     ELSE IF NotData(data) \/ data.chat_history.tag = "missing"
       THEN /\ response' = ErrorResponse(400, "No chat history provided")
            /\ pc' = "done"
            /\ UNCHANGED chat_history
     ELSE IF NotChatHistory(data.chat_history)
       THEN /\ response' = ErrorResponse(400, "Chat history is empty")
            /\ pc' = "done"
            /\ UNCHANGED chat_history
     ELSE /\ chat_history' = data.chat_history.items
          /\ pc' = "extract"
          /\ UNCHANGED response
  /\ UNCHANGED <<endpoint, data, ctx, name, company, loop, resources, future, coros,
                 writes, extracted, rucOnRunning, result, openLoops, served, otherVars>>

\* extract_user_info_from_chat(chat_history), then the two dict.get.
sc_extract ==
  /\ pc = "extract"
  /\ extracted' = Append(extracted, Len(chat_history))
  /\ \E u \in ExtractorOutcomes :
       IF u.kind = "raise"
         THEN /\ response' = ErrorResponse(500, "extractor failed")
              /\ pc' = "done"
              /\ UNCHANGED <<name, company>>
         ELSE /\ name' = Get(u.name, "Unknown")
              /\ company' = Get(u.company, "Unknown")
              /\ pc' = "get_loop"
              /\ UNCHANGED response
  /\ UNCHANGED <<endpoint, data, ctx, chat_history, loop, resources, future, coros,
                 writes, rucOnRunning, result, openLoops, served, otherVars>>

\* asyncio.get_event_loop(): without a loop, or with a closed one, RuntimeError
\* is raised and caught, and a new loop is created and set as the thread's loop.
sc_get_loop ==
  /\ pc = "get_loop"
  /\ IF ctx \in {"none", "closed"}
       THEN /\ loop' = "created"
            /\ resources' = [resources EXCEPT !.loop = "open"]
            /\ openLoops' = openLoops + 1
            /\ ctx' = "idle"
       ELSE /\ loop' = "reused"
            /\ UNCHANGED <<resources, openLoops, ctx>>
  /\ pc' = "dispatch"
  /\ UNCHANGED <<endpoint, data, chat_history, name, company, future, coros, writes,
                 extracted, rucOnRunning, result, response, served, otherVars>>

\* if loop.is_running(): submit asyncio.run(coroutine) to a new pool;
\* else: loop.run_until_complete(coroutine) on the calling thread.
sc_dispatch ==
  /\ pc = "dispatch"
  /\ coros' = coros + 1
  /\ IF ctx = "running"
       THEN /\ resources' = [resources EXCEPT !.pool = "open"]
            /\ pc' = "wait"
            /\ UNCHANGED <<writes, result>>
       ELSE /\ \E o \in WriteOutcomes :
                 /\ writes' = Append(writes, Write("caller", chat_history, o))
                 /\ IF o.kind = "raise"
                      THEN pc' = "fallback" /\ UNCHANGED result
                      ELSE pc' = "respond" /\ result' = o
            /\ UNCHANGED resources
  /\ UNCHANGED <<endpoint, data, ctx, chat_history, name, company, loop, future,
                 extracted, rucOnRunning, response, openLoops, served, otherVars>>

\* The worker thread: asyncio.run creates a private loop, drives the
\* coroutine on it and closes the loop; the future then holds the outcome.
worker_run ==
  /\ pc = "wait"
  /\ future = NoResult
  /\ \E o \in WriteOutcomes :
       /\ writes' = Append(writes, Write("worker", chat_history, o))
       /\ future' = o
  /\ resources' = [resources EXCEPT !.worker_loop = "closed"]
  /\ UNCHANGED <<pc, endpoint, data, ctx, chat_history, name, company, loop, coros,
                 extracted, rucOnRunning, result, response, openLoops, served, otherVars>>

\* .result() returns once the future is set; leaving the with block shuts the
\* pool down.
sc_result ==
  /\ pc = "wait"
  /\ future # NoResult
  /\ resources' = [resources EXCEPT !.pool = "closed"]
  /\ IF future.kind = "raise"
       THEN pc' = "fallback" /\ UNCHANGED result
       ELSE pc' = "respond" /\ result' = future
  /\ UNCHANGED <<endpoint, data, ctx, chat_history, name, company, loop, future, coros,
                 writes, extracted, rucOnRunning, response, openLoops, served, otherVars>>

\* except Exception: a fresh loop, run_until_complete on it, then close().
\* run_until_complete refuses to start while a loop runs on the thread.
sc_fallback ==
  /\ pc = "fallback"
  /\ coros' = coros + 1
  /\ IF ctx = "running"
       THEN /\ rucOnRunning' = TRUE
            /\ resources' = [resources EXCEPT !.new_loop = "open"]
            /\ openLoops' = openLoops + 1
            /\ response' = ErrorResponse(500, LoopRunningError)
            /\ pc' = "done"
            /\ UNCHANGED <<writes, result>>
       ELSE /\ UNCHANGED rucOnRunning
            /\ \E o \in WriteOutcomes :
                 /\ writes' = Append(writes, Write("caller", chat_history, o))
                 /\ IF o.kind = "raise"
                      THEN /\ resources' = [resources EXCEPT !.new_loop = "open"]
                           /\ openLoops' = openLoops + 1
                           /\ response' = ErrorResponse(500, o.error)
                           /\ pc' = "done"
                           /\ UNCHANGED result
                      ELSE /\ resources' = [resources EXCEPT !.new_loop = "closed"]
                           /\ result' = o
                           /\ pc' = "respond"
                           /\ UNCHANGED <<openLoops, response>>
  /\ UNCHANGED <<endpoint, data, ctx, chat_history, name, company, loop, future,
                 extracted, served, otherVars>>

\* The success response; record_id is result.get('id').
sc_respond ==
  /\ pc = "respond"
  /\ response' = [NoResponse EXCEPT !.status = 200, !.success = TRUE,
                                    !.name = name, !.company = company,
                                    !.message_count = Len(chat_history),
                                    !.record_id = result.id]
  /\ pc' = "done"
  /\ UNCHANGED <<endpoint, data, ctx, callVars, openLoops, served, otherVars>>

\* ------------------------------------------------------------------- return
\* The response is sent and the handler's frame is gone.
Return ==
  /\ pc = "done"
  /\ pc' = "idle"
  /\ ClearCall
  /\ served' = served + 1
  /\ UNCHANGED <<openLoops, tokenVars>>

\* ---------------------------------------------------------------- get_token
NoToken == [pc |-> "idle", arg |-> [given |-> FALSE, value |-> EmptyName],
            name |-> EmptyName, rooms |-> {}, fetches |-> 0,
            room |-> EmptyName, status |-> 0]

\* The registry is owned elsewhere: it lists any rooms when the server starts.
InitToken ==
  /\ InitHandlers
  /\ registry \in SUBSET RoomNames
  /\ tok = [t \in TokenRequests |-> NoToken]

\* get_token up to its first suspension: with a room given the credential is
\* issued at once; without, generate_room_name draws its first candidate and
\* suspends in get_rooms.
get_token(t) ==
  /\ tok[t].pc = "idle"
  /\ \E a \in RoomArgs :
       IF NotRoom(a)
         THEN \E x \in Suffixes :
                tok' = [tok EXCEPT ![t].arg = a, ![t].pc = "get_rooms",
                                   ![t].name = RoomName("room-", x)]
         ELSE tok' = [tok EXCEPT ![t].arg = a, ![t].pc = "done",
                                 ![t].room = a.value, ![t].status = 200]
  /\ UNCHANGED <<registry, handlerVars>>

\* get_rooms: the registry answers with the rooms it lists now, or fails.
get_rooms(t) ==
  /\ tok[t].pc = "get_rooms"
  /\ \/ tok' = [tok EXCEPT ![t].rooms = registry, ![t].fetches = @ + 1,
                           ![t].pc = "while"]
     \/ tok' = [tok EXCEPT ![t].fetches = @ + 1, ![t].pc = "done", ![t].status = 500]
  /\ UNCHANGED <<registry, handlerVars>>

\* while name in rooms: draw another candidate.
generate_room_name_retry(t) ==
  /\ tok[t].pc = "while"
  /\ tok[t].name \in tok[t].rooms
  /\ \E x \in Suffixes : tok' = [tok EXCEPT ![t].name = RoomName("room-", x)]
  /\ UNCHANGED <<registry, handlerVars>>

\* generate_room_name returning its candidate without the membership test.
generate_room_name_return_unchecked(t) ==
  /\ tok[t].pc = "while"
  /\ tok' = [tok EXCEPT ![t].room = tok[t].name, ![t].status = 200, ![t].pc = "done"]
  /\ UNCHANGED <<registry, handlerVars>>

\* generate_room_name entering the returned name in the registry.
generate_room_name_return_reserving(t) ==
  /\ tok[t].pc = "while"
  /\ tok[t].name \notin tok[t].rooms
  /\ tok' = [tok EXCEPT ![t].room = tok[t].name, ![t].status = 200, ![t].pc = "done"]
  /\ registry' = registry \cup {tok[t].name}
  /\ UNCHANGED handlerVars

\* The loop ends: return name, and get_token issues the credential for it.
generate_room_name_return(t) ==
  /\ tok[t].pc = "while"
  /\ tok[t].name \notin tok[t].rooms
  /\ tok' = [tok EXCEPT ![t].room = tok[t].name, ![t].status = 200, ![t].pc = "done"]
  /\ UNCHANGED <<registry, handlerVars>>

\* The credential's holder joins: the registry now lists the room.
JoinRoom(t) ==
  /\ tok[t].pc = "done"
  /\ tok[t].status = 200
  /\ tok[t].room \in RoomNames
  /\ registry' = registry \cup {tok[t].room}
  /\ tok' = [tok EXCEPT ![t] = NoToken]
  /\ UNCHANGED handlerVars

\* The response is dropped unused (a 500, or a credential never redeemed).
DropToken(t) ==
  /\ tok[t].pc = "done"
  /\ tok' = [tok EXCEPT ![t] = NoToken]
  /\ UNCHANGED <<registry, handlerVars>>

\* A room empties and leaves the registry.
CloseRoom ==
  /\ \E r \in registry : registry' = registry \ {r}
  /\ UNCHANGED <<tok, handlerVars>>

Init ==
  /\ InitHandlers
  /\ registry = {}
  /\ tok = [t \in TokenRequests |-> NoToken]

Next ==
  \/ save_chat
  \/ get_chats
  \/ extract_client_info
  \/ save_conversation
  \/ sc_validate
  \/ sc_extract
  \/ sc_get_loop
  \/ sc_dispatch
  \/ worker_run
  \/ sc_result
  \/ sc_fallback
  \/ sc_respond
  \/ Return

Spec == Init /\ [][Next]_vars

NextToken ==
  \/ \E t \in TokenRequests : get_token(t)
  \/ \E t \in TokenRequests : get_rooms(t)
  \/ \E t \in TokenRequests : generate_room_name_retry(t)
  \/ \E t \in TokenRequests : generate_room_name_return(t)
  \/ \E t \in TokenRequests : JoinRoom(t)
  \/ \E t \in TokenRequests : DropToken(t)
  \/ CloseRoom

SpecToken == InitToken /\ [][NextToken]_vars
\* =================================================================== claims
Returned(e) == pc = "done" /\ endpoint = e
RaisedWrites == {i \in DOMAIN writes : writes[i].outcome.kind = "raise"}
HasHistory(d) == d.kind = "object" /\ d.chat_history.tag = "list" /\ d.chat_history.items # << >>

\* C1: one call of save_conversation runs the storage write save_chat_history
\* at most once, on every branch (loop not running, loop running, first
\* attempt raising).
C1_WriteAtMostOnce ==
  endpoint = "save_conversation" => Len(writes) <= 1

\* C2: every loop or pool a save_conversation call creates is closed before
\* the call returns, on every exit path, and no loop created by a request is
\* still open once the request has returned.
C2_ResourcesReleased ==
  /\ Returned("save_conversation") =>
       \A k \in DOMAIN resources : resources[k] # "open"
  /\ pc \in {"idle", "done"} => openLoops = 0

\* C3: when the storage write raises inside the bridge of save_conversation,
\* the request ends in the 500 response carrying that failure, never in a
\* success response.
C3_ErrorRelayed ==
  (Returned("save_conversation") /\ RaisedWrites # {}) =>
     /\ response.status = 500
     /\ ~response.success
     /\ response.error \in {writes[i].outcome.error : i \in RaisedWrites}

\* C4: with a loop running on the calling thread, save_conversation never
\* drives the write on the calling thread nor calls run_until_complete on it;
\* the write runs on the worker, the caller builds its response only after
\* the worker has completed, and it observes the worker's result or error.
C4_WorkerOnly ==
  (endpoint = "save_conversation" /\ ctx = "running") =>
     /\ ~rucOnRunning
     /\ \A i \in DOMAIN writes : writes[i].by = "worker"
     /\ pc \in {"respond", "fallback"} => future # NoResult
     /\ (pc = "done" /\ future # NoResult) =>
          IF future.kind = "raise"
            THEN response.status = 500 /\ response.error = future.error
            ELSE response.status = 200 /\ response.record_id = future.id

\* C5: generate_room_name never returns a name that is in the room list it
\* fetched during the call, and it fetches the registry exactly once per call.
C5_ResultNotInSnapshot ==
  \A t \in TokenRequests :
    /\ tok[t].fetches <= 1
    /\ (tok[t].pc = "done" /\ tok[t].status = 200 /\ NotRoom(tok[t].arg)) =>
         /\ tok[t].room \notin tok[t].rooms
         /\ tok[t].room \in GeneratedNames
         /\ tok[t].fetches = 1

C5_Witness ==
  \E t \in TokenRequests :
    /\ tok[t].pc = "done"
    /\ tok[t].status = 200
    /\ NotRoom(tok[t].arg)
    /\ tok[t].rooms \cap GeneratedNames # {}
    /\ tok[t].room \notin tok[t].rooms

\* C6 as stated: every save_chat request with a non-empty chat_history gets
\* success = true and message_count = len(chat_history).
C6_AlwaysSuccess ==
  (Returned("save_chat") /\ HasHistory(data)) =>
     /\ response.success
     /\ response.message_count = Len(data.chat_history.items)

\* C6 as amended: every save_chat request with a non-empty chat_history whose
\* storage write returns a record without "error" gets success = true and
\* message_count = len(chat_history); when the write returns an error or
\* raises, the response is a 500 without success.
C6_SuccessWhenStored ==
  (Returned("save_chat") /\ HasHistory(data)) =>
     /\ Len(writes) = 1
     /\ IF writes[1].outcome.kind = "ok"
          THEN /\ response.status = 200
               /\ response.success
               /\ response.message_count = Len(data.chat_history.items)
          ELSE /\ response.status = 500
               /\ ~response.success

C6_Witness ==
  /\ Returned("save_chat")
  /\ Len(data.chat_history.items) = MaxLen
  /\ Len(writes) = 1
  /\ writes[1].outcome.kind = "ok"
  /\ response.message_count = MaxLen

\* C7: get_chats never hands a zero or negative limit to the storage query;
\* such a request is rejected with a 400.
C7_PositiveLimit ==
  endpoint = "get_chats" => \A i \in DOMAIN queries : queries[i] > 0

\* The completion text decodes to an object holding both name and company.
StrictClientInfo(text) ==
  LET v == json_loads(text)
  IN  v.ok /\ v.type = "object" /\ {"name", "company"} \subseteq DOMAIN v.members

\* C8 as stated: whenever the completion text is not an object with both
\* name and company, extract_client_info answers success with name and
\* company both "Unknown".
C8_BothUnknown ==
  (Returned("extract_client_info") /\ completion.kind = "text"
     /\ ~StrictClientInfo(completion.content)) =>
     /\ response.success
     /\ response.name = "Unknown"
     /\ response.company = "Unknown"

\* C8 as amended: a completion text never produces an error response; when
\* it is not JSON or not a JSON object, name and company are both "Unknown";
\* when it is an object, each field that is absent is "Unknown" and each
\* field that is present keeps its value.
C8_UnknownPerField ==
  (Returned("extract_client_info") /\ completion.kind = "text") =>
     LET v == json_loads(completion.content)
         isObject == v.ok /\ v.type = "object"
     IN  /\ response.status = 200
         /\ response.success
         /\ ~isObject => response.name = "Unknown" /\ response.company = "Unknown"
         /\ isObject =>
              /\ response.name = IF "name" \in DOMAIN v.members
                                 THEN v.members["name"] ELSE "Unknown"
              /\ response.company = IF "company" \in DOMAIN v.members
                                    THEN v.members["company"] ELSE "Unknown"

C8_Witness ==
  /\ Returned("extract_client_info")
  /\ completion.kind = "text"
  /\ completion.content = <<"{", "\"name\"", ":", "\"Alice\"", "}">>
  /\ response.success
  /\ response.name = "Alice"
  /\ response.company = "Unknown"

TokenStep(t) ==
  \/ get_token(t)
  \/ get_rooms(t)
  \/ generate_room_name_retry(t)
  \/ generate_room_name_return(t)

\* C10: nothing in generate_room_name or get_token reserves the name between
\* the check and its use: no step of them changes what the registry lists, so
\* two requests that each read the registry before the other's room exists
\* can both return the same room name.
C10_NoReservation ==
  [][(\E t \in TokenRequests : TokenStep(t)) => registry' = registry]_vars

C10_Witness ==
  \E t, u \in TokenRequests :
    /\ t # u
    /\ tok[t].pc = "done" /\ tok[u].pc = "done"
    /\ tok[t].status = 200 /\ tok[u].status = 200
    /\ NotRoom(tok[t].arg) /\ NotRoom(tok[u].arg)
    /\ tok[t].room = tok[u].room
    /\ tok[t].room \notin registry
====
